---------------------------- MODULE Spec2Model ----------------------------
(***************************************************************************)
(* A model of the numeric / codec core of numbatx/rn-sdk:                  *)
(*                                                                         *)
(*   - the arbitrary-precision signed integer in its two backends:         *)
(*       RustBigInt  (numbat-wasm-debug/src/big_int_mock.rs), the          *)
(*                   Computed backend, a wrapper of num_bigint::BigInt;    *)
(*       AndesBigInt (numbat-wasm-node/src/big_int.rs), the Delegated      *)
(*                   backend, a handle into storage owned by the host;     *)
(*   - the argument loader protocol and its wrapper types                  *)
(*       (numbat-wasm/src/io/arg_types.rs);                                *)
(*   - the asynchronous call argument serializer                           *)
(*       (numbat-wasm/src/io/arg_serialize.rs).                            *)
(*                                                                         *)
(* The two integer backends run in lockstep: every operation is applied    *)
(* to the Computed value of a program variable and to its Delegated        *)
(* handle, so that the backends can be compared after each operation.      *)
(***************************************************************************)
EXTENDS Integers, Sequences, FiniteSets, TLC

VARIABLES
    \* ---- integer abstraction ----
    heap,       \* host storage: heap[h] is the value stored under handle h
    dh,         \* Delegated backend: program variable -> handle (0: moved out)
    cv,         \* Computed backend: program variable -> value
    wire,       \* the byte vector the program holds, in each backend
    obs,        \* the last operation and what each backend returned
    clones,     \* ghost: <<source handle, clone handle>> of every clone() made
    nops,       \* operations so far that wrote to the host's storage
    \* ---- argument loader ----
    loader,     \* the raw arguments the loader has not handed out yet
    supplied,   \* ghost: the raw arguments the call came with
    pc,         \* where the endpoint's argument loading stands
    ty,         \* the argument type being loaded
    result_vec, \* VarArgs::load's result_vec
    ret,        \* what the load returned
    calls,      \* ghost: next_arg calls made so far
    \* ---- asynchronous call argument serializer ----
    callData,   \* the call-data buffer: the argument byte strings pushed so far
    pushed,     \* the last push: its argument, what it returned, the buffer before
    \* ---- nested encoding of the integers ----
    phase,      \* where the nested encode / decode run stands
    items,      \* ghost: the literals encoded so far, in order
    output,     \* the Output each backend has written its nested encodings to
    input,      \* the Input each backend decodes from: the bytes not yet read
    decoded     \* what dep_decode returned so far: values (c) and handles (d)

bigvars == <<heap, dh, cv, wire, obs, clones, nops>>

argvars == <<loader, supplied, pc, ty, result_vec, ret, calls>>

pushvars == <<callData, pushed>>

codecvars == <<phase, items, output, input, decoded>>

vars == <<bigvars, argvars, pushvars, codecvars>>

(***************************************************************************)
(* Bounds of the model.                                                    *)
(***************************************************************************)
MaxOps == 2         \* storage-writing integer operations in one run
MaxAbs == 70000     \* magnitude of the values a run computes
MaxArgs == 3        \* raw arguments a call comes with
MaxArity == 3       \* arity of the fixed-arity tuples a run loads or pushes
MaxVec == 3         \* elements a VarArgs load collects without consuming an argument
MaxBuf == 3         \* argument byte strings the call-data buffer holds
MaxList == 2        \* length of the VarArgs lists a run pushes
MaxNested == 2      \* integers a run encodes one after the other
MaxCut == 2         \* bytes missing at the end of the buffer a decode is given

\* The machine-word literals the program constructs integers from: zero, and
\* the two nearest zero whose byte form needs a second byte (0xff7f, 0x0080).
Literals == {-129, 0, 128}

\* The program's two integer variables.
Regs == {"a", "b"}

Abs(x) == IF x < 0 THEN -x ELSE x


(***************************************************************************)
(* Truncating division and remainder (rounding toward zero, the remainder  *)
(* taking the sign of the dividend): num_bigint's Div / Rem and the host's *)
(* bigIntTDiv / bigIntTMod.                                                *)
(***************************************************************************)
TDiv(a, b) ==
    IF (a >= 0) = (b >= 0) THEN Abs(a) \div Abs(b) ELSE -(Abs(a) \div Abs(b))

TRem(a, b) == a - b * TDiv(a, b)

BinOps == {"add", "sub", "mul", "div", "rem"}

\* The exact integer result of one arithmetic operation.
Arith(op, a, b) ==
    CASE op = "add" -> a + b
      [] op = "sub" -> a - b
      [] op = "mul" -> a * b
      [] op = "div" -> TDiv(a, b)
      [] op = "rem" -> TRem(a, b)

\* Three-way comparison as an i32: -1, 0 or 1.
Cmp3(a, b) == IF a < b THEN -1 ELSE IF a = b THEN 0 ELSE 1

(***************************************************************************)
(* num_bigint, the library the Computed backend wraps.                     *)
(***************************************************************************)
RECURSIVE to_bitwise_digits_be(_)
\* The base-256 digits of n > 0, most significant first.
to_bitwise_digits_be(n) ==
    IF n = 0 THEN << >> ELSE Append(to_bitwise_digits_be(n \div 256), n % 256)

\* BigUint::to_bytes_be: zero is the one byte 0.
BigUint_to_bytes_be(n) == IF n = 0 THEN <<0>> ELSE to_bitwise_digits_be(n)

RECURSIVE BigUint_from_bytes_be(_)
\* BigUint::from_bytes_be: the magnitude the bytes spell, most significant first.
BigUint_from_bytes_be(bytes) ==
    IF bytes = << >> THEN 0
    ELSE 256 * BigUint_from_bytes_be(SubSeq(bytes, 1, Len(bytes) - 1))
         + bytes[Len(bytes)]

RECURSIVE twos_complement_from(_, _, _)
\* twos_complement: from the least significant byte on, invert each byte and
\* add the carry, which starts set and stays set while the byte wraps to 0.
twos_complement_from(bytes, i, carry) ==
    IF i = 0 THEN bytes
    ELSE LET inv == 255 - bytes[i]
             d   == IF carry THEN (inv + 1) % 256 ELSE inv
         IN  twos_complement_from([bytes EXCEPT ![i] = d], i - 1, carry /\ d = 0)

twos_complement_be(bytes) == twos_complement_from(bytes, Len(bytes), TRUE)

\* Whether every byte after the first is 0.
RestIsZero(bytes) == \A i \in 2..Len(bytes) : bytes[i] = 0

\* BigInt::to_signed_bytes_be: the magnitude's bytes, one 0 byte in front when
\* the magnitude uses the top bit (but for a negative power -2^(8n-1)), and the
\* two's complement of that for a negative value.
BigInt_to_signed_bytes_be(v) ==
    LET mag   == BigUint_to_bytes_be(Abs(v))
        first == mag[1]
        ext   == IF first > 127 /\ ~(first = 128 /\ RestIsZero(mag) /\ v < 0)
                 THEN <<0>> \o mag ELSE mag
    IN  IF v < 0 THEN twos_complement_be(ext) ELSE ext

\* BigInt::from_signed_bytes_be: no byte is zero; a first byte above 0x7f is a
\* negative value, whose magnitude is the two's complement of the bytes.
BigInt_from_signed_bytes_be(bytes) ==
    IF bytes = << >> THEN 0
    ELSE IF bytes[1] > 127 THEN -BigUint_from_bytes_be(twos_complement_be(bytes))
    ELSE BigUint_from_bytes_be(bytes)

\* num_bigint::Sign of a value.
BigInt_sign(v) == IF v < 0 THEN "Minus" ELSE IF v = 0 THEN "NoSign" ELSE "Plus"

\* Ord::cmp / PartialOrd::partial_cmp of two BigInt, as a core::cmp::Ordering.
Ordering(c) == IF c < 0 THEN "Less" ELSE IF c = 0 THEN "Equal" ELSE "Greater"

(***************************************************************************)
(* The Computed backend, RustBigInt.                                       *)
(***************************************************************************)
\* From<i64> / From<i32> for RustBigInt.
RustBigInt_from(item) == item

\* Clone for RustBigInt.
RustBigInt_clone(v) == v

\* binary_operator! for RustBigInt, by value and by reference alike.
RustBigInt_binary_operator(op, self, other) == Arith(op, self, other)

\* binary_assign_operator! for RustBigInt: the new value of self.
RustBigInt_binary_assign_operator(op, self, other) == Arith(op, self, other)

\* Neg for RustBigInt.
RustBigInt_neg(v) == -v

\* PartialEq<i64> for RustBigInt.
RustBigInt_eq_i64(v, other) == v = RustBigInt_from(other)

\* PartialOrd<i64> for RustBigInt.
RustBigInt_partial_cmp_i64(v, other) == Ordering(Cmp3(v, RustBigInt_from(other)))

\* PartialEq<Self> and Ord for RustBigInt.
RustBigInt_eq(a, b) == a = b

RustBigInt_cmp(a, b) == Ordering(Cmp3(a, b))

\* RustBigInt::abs_uint.
RustBigInt_abs_uint(v) == Abs(v)

\* RustBigInt::sign: num_bigint's Minus and NoSign both map to NoSign.
RustBigInt_sign(v) ==
    CASE BigInt_sign(v) = "Minus"  -> "NoSign"
      [] BigInt_sign(v) = "NoSign" -> "NoSign"
      [] BigInt_sign(v) = "Plus"   -> "Plus"

\* RustBigInt::to_signed_bytes_be.
RustBigInt_to_signed_bytes_be(v) == BigInt_to_signed_bytes_be(v)

\* RustBigInt::from_signed_bytes_be.
RustBigInt_from_signed_bytes_be(bytes) == BigInt_from_signed_bytes_be(bytes)

\* Encode::using_top_encoded for RustBigInt: the bytes handed to f.
RustBigInt_using_top_encoded(v) == RustBigInt_to_signed_bytes_be(v)

(***************************************************************************)
(* The host's arithmetic surface, which the Delegated backend calls        *)
(* through the extern declarations of big_int.rs.  hp is the host's        *)
(* storage, a sequence of values indexed by handle; an operation that      *)
(* writes returns the storage after it.                                    *)
(***************************************************************************)
\* The handle the next bigIntNew returns.
NewHandle(hp) == Len(hp) + 1

\* bigIntNew(value): a fresh handle holding value.
bigIntNew(hp, value) == Append(hp, value)

bigIntAdd(hp, dest, x, y) == [hp EXCEPT ![dest] = hp[x] + hp[y]]

bigIntSub(hp, dest, x, y) == [hp EXCEPT ![dest] = hp[x] - hp[y]]

bigIntMul(hp, dest, x, y) == [hp EXCEPT ![dest] = hp[x] * hp[y]]

bigIntTDiv(hp, dest, x, y) == [hp EXCEPT ![dest] = TDiv(hp[x], hp[y])]

bigIntTMod(hp, dest, x, y) == [hp EXCEPT ![dest] = TRem(hp[x], hp[y])]

bigIntAbs(hp, dest, x) == [hp EXCEPT ![dest] = Abs(hp[x])]

bigIntNeg(hp, dest, x) == [hp EXCEPT ![dest] = -hp[x]]

\* bigIntSign(x): -1, 0 or 1.
bigIntSign(hp, x) == Cmp3(hp[x], 0)

\* bigIntCmp(x, y): -1, 0 or 1.
bigIntCmp(hp, x, y) == Cmp3(hp[x], hp[y])

RECURSIVE Pow256(_)
Pow256(n) == IF n = 0 THEN 1 ELSE 256 * Pow256(n - 1)

\* The least number of bytes whose two's complement range holds v; none for 0.
SignedByteLength(v) ==
    IF v = 0 THEN 0
    ELSE CHOOSE n \in 1..3 :
            /\ -(Pow256(n) \div 2) <= v /\ v < Pow256(n) \div 2
            /\ \A m \in 1..(n - 1) : ~(-(Pow256(m) \div 2) <= v /\ v < Pow256(m) \div 2)

\* The canonical wire form of v: minimal-length big-endian two's complement,
\* the empty sequence for 0.
SignedBytes(v) ==
    LET n == SignedByteLength(v)
        u == IF v < 0 THEN v + Pow256(n) ELSE v
    IN  [i \in 1..n |-> (u \div Pow256(n - i)) % 256]

\* The value a big-endian two's complement byte sequence spells; 0 for none.
FromSignedBytes(bytes) ==
    LET n == Len(bytes)
        u == BigUint_from_bytes_be(bytes)
    IN  IF n > 0 /\ bytes[1] >= 128 THEN u - Pow256(n) ELSE u

bigIntSignedByteLength(hp, x) == SignedByteLength(hp[x])

\* bigIntGetSignedBytes(reference, byte_ptr): the bytes written at byte_ptr.
bigIntGetSignedBytes(hp, reference) == SignedBytes(hp[reference])

bigIntSetSignedBytes(hp, destination, bytes) ==
    [hp EXCEPT ![destination] = FromSignedBytes(bytes)]

\* The host function a binary operator macro is instantiated with.
api_func(op, hp, dest, x, y) ==
    CASE op = "add" -> bigIntAdd(hp, dest, x, y)
      [] op = "sub" -> bigIntSub(hp, dest, x, y)
      [] op = "mul" -> bigIntMul(hp, dest, x, y)
      [] op = "div" -> bigIntTDiv(hp, dest, x, y)
      [] op = "rem" -> bigIntTMod(hp, dest, x, y)

(***************************************************************************)
(* The Delegated backend, AndesBigInt.  An operation that returns a value  *)
(* gives [heap |-> the host's storage after it, handle |-> the handle of   *)
(* the AndesBigInt returned].                                              *)
(***************************************************************************)
\* From<i64> / From<i32> for AndesBigInt, and AndesBigInt::from_i64.
AndesBigInt_from(hp, item) ==
    [heap |-> bigIntNew(hp, item), handle |-> NewHandle(hp)]

\* A clone() that copies the handle instead of the value (a derived Clone).
AndesBigInt_clone_alias(hp, self) == [heap |-> hp, handle |-> self]

\* Clone for AndesBigInt: a new handle of value 0, then clone := clone + self.
AndesBigInt_clone(hp, self) ==
    LET clone_handle == NewHandle(hp)
        h1 == bigIntNew(hp, 0)
    IN  [heap |-> bigIntAdd(h1, clone_handle, clone_handle, self),
         handle |-> clone_handle]

\* binary_operator! for AndesBigInt, by value and by reference alike.
AndesBigInt_binary_operator(op, hp, self, other) ==
    LET result == NewHandle(hp)
        h1 == bigIntNew(hp, 0)
    IN  [heap |-> api_func(op, h1, result, self, other), handle |-> result]

\* An in-place operator that stores the result under the other operand's handle.
AndesBigInt_binary_assign_operator_into_other(op, hp, self, other) ==
    api_func(op, hp, other, self, other)

\* binary_assign_operator! for AndesBigInt: the storage after self op= other.
AndesBigInt_binary_assign_operator(op, hp, self, other) ==
    api_func(op, hp, self, self, other)

\* PartialEq and Ord for AndesBigInt.
AndesBigInt_eq(hp, self, other) == bigIntCmp(hp, self, other) = 0

AndesBigInt_cmp(hp, self, other) == Ordering(bigIntCmp(hp, self, other))

\* An andes_cmp_i64 that hands the host its two operands in the wrong order.
andes_cmp_i64_swapped(hp, bi, other) ==
    IF other = 0
    THEN [heap |-> hp, res |-> bigIntSign(hp, bi)]
    ELSE LET h1 == bigIntNew(hp, other)
         IN  [heap |-> h1, res |-> bigIntCmp(h1, NewHandle(hp), bi)]

\* andes_cmp_i64: [heap, res]; comparing against a non-zero scalar allocates.
andes_cmp_i64(hp, bi, other) ==
    IF other = 0
    THEN [heap |-> hp, res |-> bigIntSign(hp, bi)]
    ELSE LET h1 == bigIntNew(hp, other)
         IN  [heap |-> h1, res |-> bigIntCmp(h1, bi, NewHandle(hp))]

\* PartialEq<i64> for AndesBigInt.
AndesBigInt_eq_i64(hp, self, other) == andes_cmp_i64(hp, self, other).res = 0

\* PartialOrd<i64> for AndesBigInt.
AndesBigInt_partial_cmp_i64(hp, self, other) ==
    Ordering(andes_cmp_i64(hp, self, other).res)

\* A neg that negates under the operand's own handle.
AndesBigInt_neg_in_place(hp, self) ==
    [heap |-> bigIntNeg(hp, self, self), handle |-> self]

\* Neg for AndesBigInt.
AndesBigInt_neg(hp, self) ==
    LET result == NewHandle(hp)
        h1 == bigIntNew(hp, 0)
    IN  [heap |-> bigIntNeg(h1, result, self), handle |-> result]

\* AndesBigInt::abs_uint.
AndesBigInt_abs_uint(hp, self) ==
    LET result == NewHandle(hp)
        h1 == bigIntNew(hp, 0)
    IN  [heap |-> bigIntAbs(h1, result, self), handle |-> result]

\* AndesBigInt::sign.
AndesBigInt_sign(hp, self) ==
    LET s == bigIntSign(hp, self)
    IN  CASE Ordering(Cmp3(s, 0)) = "Greater" -> "Plus"
          [] Ordering(Cmp3(s, 0)) = "Equal"   -> "NoSign"
          [] Ordering(Cmp3(s, 0)) = "Less"    -> "Minus"

\* AndesBigInt::to_signed_bytes_be: a zeroed vector of the length the host
\* reports, which the host then fills.
AndesBigInt_to_signed_bytes_be(hp, self) ==
    LET byte_len == bigIntSignedByteLength(hp, self)
        written  == bigIntGetSignedBytes(hp, self)
    IN  [i \in 1..byte_len |-> IF i <= Len(written) THEN written[i] ELSE 0]

\* A from_signed_bytes_be that has the host read the bytes as a magnitude
\* (the unsigned integer's setter).
AndesBigInt_from_signed_bytes_be_unsigned(hp, bytes) ==
    LET handle == NewHandle(hp)
        h1 == bigIntNew(hp, 0)
    IN  [heap |-> [h1 EXCEPT ![handle] = BigUint_from_bytes_be(bytes)],
         handle |-> handle]

\* AndesBigInt::from_signed_bytes_be.
AndesBigInt_from_signed_bytes_be(hp, bytes) ==
    LET handle == NewHandle(hp)
        h1 == bigIntNew(hp, 0)
    IN  [heap |-> bigIntSetSignedBytes(h1, handle, bytes), handle |-> handle]

\* Encode::using_top_encoded for AndesBigInt: the bytes handed to f.
AndesBigInt_using_top_encoded(hp, self) == AndesBigInt_to_signed_bytes_be(hp, self)

(***************************************************************************)
(* The program: two integer variables a and b, each constructed from a     *)
(* machine-word literal, then any sequence of the operations of the        *)
(* BigIntApi.  Every operation is applied in both backends.                *)
(***************************************************************************)
\* The loader and the serializer, while the run is about the integers.
IdleArgs ==
    /\ loader = << >> /\ supplied = << >> /\ pc = "idle"
    /\ ty = [kind |-> "unit", elems |-> << >>]
    /\ result_vec = << >>
    /\ ret = [ok |-> TRUE, val |-> << >>, err |-> ""]
    /\ calls = 0

IdlePush ==
    /\ callData = << >>
    /\ pushed = [op |-> "idle", arg |-> <<"unit">>, expected |-> 0,
                 res |-> [ok |-> TRUE, err |-> ""], before |-> << >>]

IdleCodec ==
    /\ phase = "idle" /\ items = << >>
    /\ output = [c |-> << >>, d |-> << >>]
    /\ input = [c |-> << >>, d |-> << >>, cut |-> 0]
    /\ decoded = [c |-> << >>, d |-> << >>, cerr |-> "", derr |-> ""]

NoWire == [set |-> FALSE, own |-> FALSE, c |-> << >>, d |-> << >>, x |-> <<0, 0>>]

Obs(op, kind, r, s, h, src, lit) ==
    [op |-> op, kind |-> kind, r |-> r, s |-> s, h |-> h, src |-> src, lit |-> lit]

\* The integers, while the run is about the loader or the serializer.
IdleBigInt ==
    /\ heap = << >> /\ dh = [r \in Regs |-> 0] /\ cv = [r \in Regs |-> 0]
    /\ wire = NoWire /\ obs = Obs("idle", "", "a", 0, 0, 0, FALSE)
    /\ clones = {} /\ nops = 0

Other(r) == IF r = "a" THEN "b" ELSE "a"

Bound(r) == dh[r] # 0

CanWrite == nops < MaxOps

\* Byte vectors the program may receive from outside, canonical or not.
ReceivedBytes == { << >>, <<255>> }

\* The 64-bit scalars the program compares an integer against.
Scalars == {-1, 0, 1}

InitBigInt ==
    \E la \in Literals, lb \in Literals :
        LET na == AndesBigInt_from(<< >>, la)
            nb == AndesBigInt_from(na.heap, lb)
        IN  /\ heap = nb.heap
            /\ dh = [r \in Regs |-> IF r = "a" THEN na.handle ELSE nb.handle]
            /\ cv = [r \in Regs |-> IF r = "a" THEN RustBigInt_from(la)
                                               ELSE RustBigInt_from(lb)]
            /\ wire = NoWire
            /\ obs = Obs("init", "", "a", 0, 0, 0, TRUE)
            /\ clones = {}
            /\ nops = 0

\* let r = BigInt::from(item), for a variable that was moved out.
FromI64(r, item) ==
    /\ ~Bound(r) /\ CanWrite
    /\ LET n == AndesBigInt_from(heap, item)
       IN  /\ heap' = n.heap
           /\ dh' = [dh EXCEPT ![r] = n.handle]
           /\ cv' = [cv EXCEPT ![r] = RustBigInt_from(item)]
           /\ obs' = Obs("from", "", r, item, n.handle, 0, FALSE)
    /\ UNCHANGED <<argvars, pushvars, codecvars>>
    /\ wire' = NoWire
    /\ nops' = nops + 1
    /\ UNCHANGED clones

\* a = a op b (both moved, b left unbound) or a = &a op &b.
BinaryOperator(op, byRef) ==
    /\ Bound("a") /\ Bound("b") /\ CanWrite
    /\ op \in {"div", "rem"} => cv["b"] # 0
    /\ Abs(Arith(op, cv["a"], cv["b"])) <= MaxAbs
    /\ LET n == AndesBigInt_binary_operator(op, heap, dh["a"], dh["b"])
       IN  /\ heap' = n.heap
           /\ dh' = [dh EXCEPT !["a"] = n.handle,
                               !["b"] = IF byRef THEN @ ELSE 0]
           /\ cv' = [cv EXCEPT !["a"] = RustBigInt_binary_operator(op, cv["a"], cv["b"]),
                               !["b"] = IF byRef THEN @ ELSE 0]
           /\ obs' = Obs(op, IF byRef THEN "ref" ELSE "value", "a", dh["b"],
                         n.handle, dh["a"], nops = 0)
    /\ UNCHANGED <<argvars, pushvars, codecvars>>
    /\ wire' = NoWire
    /\ nops' = nops + 1
    /\ UNCHANGED clones

\* a op= b (b moved) or a op= &b.
BinaryAssignOperator(op, byRef) ==
    /\ Bound("a") /\ Bound("b") /\ CanWrite
    /\ op \in {"div", "rem"} => cv["b"] # 0
    /\ Abs(Arith(op, cv["a"], cv["b"])) <= MaxAbs
    /\ heap' = AndesBigInt_binary_assign_operator(op, heap, dh["a"], dh["b"])
    /\ dh' = [dh EXCEPT !["b"] = IF byRef THEN @ ELSE 0]
    /\ cv' = [cv EXCEPT !["a"] = RustBigInt_binary_assign_operator(op, cv["a"], cv["b"]),
                        !["b"] = IF byRef THEN @ ELSE 0]
    /\ obs' = Obs(op, IF byRef THEN "assign_ref" ELSE "assign", "a", dh["b"],
                  dh["a"], dh["a"], nops = 0)
    /\ UNCHANGED <<argvars, pushvars, codecvars>>
    /\ wire' = NoWire
    /\ nops' = nops + 1
    /\ UNCHANGED clones

\* a = -a.
Neg ==
    /\ Bound("a") /\ CanWrite
    /\ LET n == AndesBigInt_neg(heap, dh["a"])
       IN  /\ heap' = n.heap
           /\ dh' = [dh EXCEPT !["a"] = n.handle]
           /\ cv' = [cv EXCEPT !["a"] = RustBigInt_neg(cv["a"])]
           /\ obs' = Obs("neg", "", "a", 0, n.handle, dh["a"], nops = 0)
    /\ UNCHANGED <<argvars, pushvars, codecvars>>
    /\ wire' = NoWire
    /\ nops' = nops + 1
    /\ UNCHANGED clones

\* b = a.abs_uint().into().
AbsUint ==
    /\ Bound("a") /\ CanWrite
    /\ LET n == AndesBigInt_abs_uint(heap, dh["a"])
       IN  /\ heap' = n.heap
           /\ dh' = [dh EXCEPT !["b"] = n.handle]
           /\ cv' = [cv EXCEPT !["b"] = RustBigInt_abs_uint(cv["a"])]
           /\ obs' = Obs("abs_uint", "", "b", 0, n.handle, dh["a"], nops = 0)
    /\ UNCHANGED <<argvars, pushvars, codecvars>>
    /\ wire' = NoWire
    /\ nops' = nops + 1
    /\ UNCHANGED clones

\* Other(r) = r.clone().
Clone(r) ==
    /\ Bound(r) /\ CanWrite
    /\ LET n == AndesBigInt_clone(heap, dh[r])
       IN  /\ heap' = n.heap
           /\ dh' = [dh EXCEPT ![Other(r)] = n.handle]
           /\ cv' = [cv EXCEPT ![Other(r)] = RustBigInt_clone(cv[r])]
           /\ obs' = Obs("clone", "", Other(r), 0, n.handle, dh[r], nops = 0)
           /\ clones' = clones \cup {<<dh[r], n.handle>>}
    /\ UNCHANGED <<argvars, pushvars, codecvars>>
    /\ wire' = NoWire
    /\ nops' = nops + 1

\* r.sign(), in both backends.
Sign(r) ==
    /\ Bound(r)
    /\ obs' = [Obs("sign", "", r, 0, 0, dh[r], nops = 0) EXCEPT
                  !.s = <<RustBigInt_sign(cv[r]), AndesBigInt_sign(heap, dh[r])>>]
    /\ UNCHANGED <<argvars, pushvars, codecvars>>
    /\ wire' = NoWire
    /\ UNCHANGED <<heap, dh, cv, clones, nops>>

\* a == other, for a 64-bit scalar.
EqI64(other) ==
    /\ Bound("a")
    /\ other # 0 => CanWrite
    /\ LET n == andes_cmp_i64(heap, dh["a"], other)
       IN  /\ heap' = n.heap
           /\ obs' = [Obs("eq_i64", "", "a", other, 0, dh["a"], nops = 0) EXCEPT
                         !.h = <<RustBigInt_eq_i64(cv["a"], other),
                                 AndesBigInt_eq_i64(heap, dh["a"], other)>>]
           /\ nops' = IF n.heap = heap THEN nops ELSE nops + 1
    /\ UNCHANGED <<argvars, pushvars, codecvars>>
    /\ wire' = NoWire
    /\ UNCHANGED <<dh, cv, clones>>

\* a.partial_cmp(&other), for a 64-bit scalar.
PartialCmpI64(other) ==
    /\ Bound("a")
    /\ other # 0 => CanWrite
    /\ LET n == andes_cmp_i64(heap, dh["a"], other)
       IN  /\ heap' = n.heap
           /\ obs' = [Obs("partial_cmp_i64", "", "a", other, 0, dh["a"], nops = 0) EXCEPT
                         !.h = <<RustBigInt_partial_cmp_i64(cv["a"], other),
                                 AndesBigInt_partial_cmp_i64(heap, dh["a"], other)>>]
           /\ nops' = IF n.heap = heap THEN nops ELSE nops + 1
    /\ UNCHANGED <<argvars, pushvars, codecvars>>
    /\ wire' = NoWire
    /\ UNCHANGED <<dh, cv, clones>>

\* let bytes = r.to_signed_bytes_be().
ToSignedBytesBe(r) ==
    /\ Bound(r)
    /\ UNCHANGED <<argvars, pushvars, codecvars>>
    /\ wire' = [set |-> TRUE, own |-> TRUE,
                c |-> RustBigInt_to_signed_bytes_be(cv[r]),
                d |-> AndesBigInt_to_signed_bytes_be(heap, dh[r]),
                x |-> <<cv[r], heap[dh[r]]>>]
    /\ obs' = Obs("to_signed_bytes_be", "", r, 0, 0, dh[r], nops = 0)
    /\ UNCHANGED <<heap, dh, cv, clones, nops>>

\* A byte vector arrives from outside (an argument, a storage value).
Receive(bytes) ==
    /\ UNCHANGED <<argvars, pushvars, codecvars>>
    /\ wire' = [set |-> TRUE, own |-> FALSE, c |-> bytes, d |-> bytes, x |-> <<0, 0>>]
    /\ obs' = Obs("receive", "", "a", 0, 0, 0, FALSE)
    /\ UNCHANGED <<heap, dh, cv, clones, nops>>

\* b = BigInt::from_signed_bytes_be(&bytes).
FromSignedBytesBe ==
    /\ wire.set /\ CanWrite
    /\ LET n == AndesBigInt_from_signed_bytes_be(heap, wire.d)
       IN  /\ heap' = n.heap
           /\ dh' = [dh EXCEPT !["b"] = n.handle]
           /\ cv' = [cv EXCEPT !["b"] = RustBigInt_from_signed_bytes_be(wire.c)]
           /\ obs' = Obs("from_signed_bytes_be", IF wire.own THEN "own" ELSE "received",
                         "b", wire.x, n.handle, 0, FALSE)
    /\ UNCHANGED <<argvars, pushvars, codecvars>>
    /\ wire' = [wire EXCEPT !.set = FALSE]
    /\ nops' = nops + 1
    /\ UNCHANGED clones

NextBigInt ==
    \/ \E r \in Regs, item \in Literals : FromI64(r, item)
    \/ \E op \in BinOps, byRef \in BOOLEAN : BinaryOperator(op, byRef)
    \/ \E op \in BinOps, byRef \in BOOLEAN : BinaryAssignOperator(op, byRef)
    \/ Neg
    \/ AbsUint
    \/ \E r \in Regs : Clone(r)
    \/ \E r \in Regs : Sign(r)
    \/ \E other \in Scalars : EqI64(other)
    \/ \E other \in Scalars : PartialCmpI64(other)
    \/ \E r \in Regs : ToSignedBytesBe(r)
    \/ \E bytes \in ReceivedBytes : Receive(bytes)
    \/ FromSignedBytesBe

\* A run about the integers: the loader and the serializer stay idle.
StartBigInt == InitBigInt /\ IdleArgs /\ IdlePush /\ IdleCodec

SpecBigInt == StartBigInt /\ [][NextBigInt]_vars

(***************************************************************************)
(* Properties of the integer abstraction.                                  *)
(***************************************************************************)
\* The two backends hold the same logical value in every bound variable.
BackendsAgree == \A r \in Regs : Bound(r) => heap[dh[r]] = cv[r]

IsBinaryOperator == obs.op \in BinOps /\ obs.kind \in {"value", "ref"}

IsBinaryAssign == obs.op \in BinOps /\ obs.kind \in {"assign", "assign_ref"}

\* C1: for every pair of machine-word literals (a, b) and every arithmetic
\* operation op (b non-zero for div and rem), the result of a op b has the same
\* signed big-endian byte encoding in the Computed and in the Delegated backend.
C1_BackendEquivalence ==
    (IsBinaryOperator /\ obs.lit) =>
        RustBigInt_to_signed_bytes_be(cv["a"])
            = AndesBigInt_to_signed_bytes_be(heap, dh["a"])

\* C2: for every logical value v, negative, zero or positive, sign() on the
\* Computed representation of v returns the same Sign as sign() on the
\* Delegated representation of v.
C2_SignAgrees == obs.op = "sign" => obs.s[1] = obs.s[2]

\* C3: in each backend from_signed_bytes_be(to_signed_bytes_be(x)) = x: the
\* integer built from the bytes that x was serialized to has the value of x.
C3_RoundTrip ==
    (obs.op = "from_signed_bytes_be" /\ obs.kind = "own") =>
        /\ cv["b"] = obs.s[1]
        /\ heap[dh["b"]] = obs.s[2]

\* A negative integer of two bytes went through the bytes and came back.
C3_Witness ==
    /\ obs.op = "from_signed_bytes_be" /\ obs.kind = "own"
    /\ obs.s = <<-129, -129>>
    /\ Len(wire.c) = 2 /\ Len(wire.d) = 2
    /\ cv["b"] = -129 /\ heap[dh["b"]] = -129

\* C4: the integer 0 serializes to the empty byte sequence in both backends
\* (to_signed_bytes_be, and the top-level encoding with it), and the empty byte
\* sequence deserializes to 0.
C4_ZeroIsEmpty ==
    /\ (obs.op = "to_signed_bytes_be" /\ wire.x = <<0, 0>>) =>
            /\ wire.c = << >> /\ wire.d = << >>
            /\ RustBigInt_using_top_encoded(cv[obs.r]) = << >>
            /\ AndesBigInt_using_top_encoded(heap, dh[obs.r]) = << >>
    /\ obs.op = "from_signed_bytes_be" =>
            /\ wire.c = << >> => cv["b"] = 0
            /\ wire.d = << >> => heap[dh["b"]] = 0

\* C5: comparing an integer x against a 64-bit scalar s directly, with == and
\* with partial_cmp, gives the result of promoting s to the integer type and
\* comparing the two integers; s = 0 included, where the Delegated backend
\* asks the host for the sign of x.
C5_ScalarCompare ==
    LET p == AndesBigInt_from(heap, obs.s)
    IN  /\ obs.op = "eq_i64" =>
            /\ obs.h[1] = RustBigInt_eq(cv["a"], RustBigInt_from(obs.s))
            /\ obs.h[2] = AndesBigInt_eq(p.heap, dh["a"], p.handle)
        /\ obs.op = "partial_cmp_i64" =>
            /\ obs.h[1] = RustBigInt_cmp(cv["a"], RustBigInt_from(obs.s))
            /\ obs.h[2] = AndesBigInt_cmp(p.heap, dh["a"], p.handle)

\* A negative integer was compared against the scalar 0 and found Less.
C5_Witness ==
    /\ obs.op = "partial_cmp_i64" /\ obs.s = 0
    /\ cv["a"] < 0 /\ obs.h = <<"Less", "Less">>

\* One step of the program, as C6 constrains it.
C6_Step ==
    /\ obs'.op = "clone" =>
            /\ obs'.h \notin 1..Len(heap)
            /\ obs'.h # obs'.src
            /\ heap'[obs'.h] = heap[obs'.src]
            /\ \A h \in 1..Len(heap) : heap'[h] = heap[h]
    /\ (/\ obs'.op \in BinOps /\ obs'.kind \in {"assign", "assign_ref"}
        /\ \E p \in clones : obs'.h \in {p[1], p[2]}) =>
            /\ Len(heap') = Len(heap)
            /\ \A h \in 1..Len(heap) : h # obs'.h => heap'[h] = heap[h]

\* C6: in the Delegated backend clone() returns a value on a newly allocated
\* handle that differs from the source's, equal in value to the source, and
\* leaves the source's value unchanged; a later in-place operation on the clone
\* or on the source changes the value of that one only.
C6_CloneIndependent == [][C6_Step]_vars

\* A clone or its source was changed in place, and the two now differ.
C6_Witness ==
    /\ IsBinaryAssign
    /\ \E p \in clones : /\ obs.h \in {p[1], p[2]}
                         /\ p[1] # p[2]
                         /\ heap[p[1]] # heap[p[2]]

\* The last operation returned a new integer value.
ProducesValue(o) ==
    \/ o.op \in {"from", "neg", "abs_uint", "clone", "from_signed_bytes_be"}
    \/ o.op \in BinOps /\ o.kind \in {"value", "ref"}

\* One step of the program, as C19 constrains it.
C19_Step ==
    /\ Len(heap') >= Len(heap)
    /\ ProducesValue(obs') =>
            /\ obs'.h \notin 1..Len(heap)
            /\ obs'.h \in 1..Len(heap')
            /\ dh'[obs'.r] = obs'.h
            /\ \A h \in 1..Len(heap) : heap'[h] = heap[h]

\* C19: in the Delegated backend every value-producing operation
\* (construction from a literal, by-value and by-reference add/sub/mul/div/rem,
\* neg, abs_uint, clone, from_signed_bytes_be) returns a handle newly obtained
\* from the host, different from every handle allocated before, and leaves the
\* value under every earlier handle, its operands included, unchanged; no
\* operation ever releases a handle.
C19_FreshHandles == [][C19_Step]_vars

\* A by-reference subtraction returned the third handle; both operands still
\* hold their values.
C19_Witness ==
    /\ obs.op = "sub" /\ obs.kind = "ref"
    /\ obs.src = 1 /\ obs.s = 2 /\ obs.h = 3
    /\ heap = <<-129, 128, -257>>
    /\ dh = [a |-> 3, b |-> 2]

\* One step of the program, as C20 constrains it.
C20_Step ==
    (obs'.op \in BinOps /\ obs'.kind \in {"assign", "assign_ref"}) =>
        LET n == AndesBigInt_binary_operator(obs'.op, heap, dh["a"], dh["b"])
        IN  /\ dh'["a"] = dh["a"] /\ obs'.h = dh["a"]
            /\ heap'[dh["a"]] = n.heap[n.handle]
            /\ Len(heap') = Len(heap)
            /\ heap'[dh["b"]] = heap[dh["b"]]
            /\ \A h \in 1..Len(heap) : h # dh["a"] => heap'[h] = heap[h]

\* C20: in the Delegated backend each in-place operation a op= b (add, sub,
\* mul, div, rem; by value or by reference) leaves a's handle unchanged and
\* holding the value that the by-value form a op b would produce, allocates no
\* new handle, and leaves b's value and every other handle's value unchanged.
C20_InPlaceFrame == [][C20_Step]_vars

\* -129 *= &128: the product is under a's handle, b holds 128, no third handle.
C20_Witness ==
    /\ obs.op = "mul" /\ obs.kind = "assign_ref"
    /\ dh = [a |-> 1, b |-> 2]
    /\ heap = <<-16512, 128>>

(***************************************************************************)
(* Argument types and values of the loader protocol.  A type is            *)
(* [kind, elems]: kind "i32", "bytes" (Vec<u8>) or "unit" (the type whose  *)
(* TYPE_INFO is TypeInfo::Unit) with no elems, or a wrapper with the types *)
(* it wraps.  A value is a tuple that starts with its variant.             *)
(***************************************************************************)
T(kind) == [kind |-> kind, elems |-> << >>]

OptionalArg(t) == [kind |-> "OptionalArg", elems |-> <<t>>]

VarArgs(t) == [kind |-> "VarArgs", elems |-> <<t>>]

\* MultiArg2 .. MultiArg16, by the types of the members.
MultiArg(ts) == [kind |-> "MultiArg", elems |-> ts]

AsyncCallResult(t) == [kind |-> "AsyncCallResult", elems |-> <<t>>]

\* The arities the multi_arg_impls! macro is instantiated for.
MultiArgMin == 2

MultiArgMax == 16

ARG_WRONG_NUMBER == "wrong number of arguments"

DECODE_INPUT_TOO_LONG == "input too long"

\* What a load returns, the loader after it, and the next_arg calls it made.
Loaded(ok, val, err, ldr, n) ==
    [ok |-> ok, val |-> val, err |-> err, loader |-> ldr, calls |-> n]

(***************************************************************************)
(* numbat_codec and the loader behind the DynArgLoader trait.              *)
(***************************************************************************)
\* The signed number that up to four big-endian bytes spell, sign-extended.
bytes_to_number(raw) ==
    LET u == BigUint_from_bytes_be(raw)
    IN  IF Len(raw) > 0 /\ raw[1] >= 128 THEN u - Pow256(Len(raw)) ELSE u

\* Decode::top_decode of one raw argument as a single-argument type.
top_decode(kind, raw) ==
    CASE kind = "i32" ->
            IF Len(raw) > 4
            THEN [ok |-> FALSE, val |-> << >>, err |-> DECODE_INPUT_TOO_LONG]
            ELSE [ok |-> TRUE, val |-> <<"i32", bytes_to_number(raw)>>, err |-> ""]
      [] kind = "bytes" -> [ok |-> TRUE, val |-> <<"bytes", raw>>, err |-> ""]
      [] kind = "unit" -> [ok |-> TRUE, val |-> <<"unit">>, err |-> ""]

\* DynArgLoader::has_next.
has_next(ldr) == Len(ldr) > 0

\* DynArgLoader::next_arg: Ok(None) when no raw argument is left, else the next
\* raw argument decoded, or the error of decoding it.
next_arg(ldr, kind) ==
    IF ~has_next(ldr)
    THEN [tag |-> "None", val |-> << >>, err |-> "", loader |-> ldr]
    ELSE LET d == top_decode(kind, Head(ldr))
         IN  IF d.ok
             THEN [tag |-> "Some", val |-> d.val, err |-> "", loader |-> Tail(ldr)]
             ELSE [tag |-> "Err", val |-> << >>, err |-> d.err, loader |-> Tail(ldr)]

(***************************************************************************)
(* ArgType::load, for each type that implements it.                        *)
(***************************************************************************)
\* A blanket load without the unit branch: next_arg is called for every type.
Decode_load_no_unit(kind, ldr) ==
    LET a == next_arg(ldr, kind)
    IN  CASE a.tag = "Some" -> Loaded(TRUE, a.val, "", a.loader, 1)
          [] a.tag = "None" -> Loaded(FALSE, << >>, ARG_WRONG_NUMBER, a.loader, 1)
          [] a.tag = "Err"  -> Loaded(FALSE, << >>, a.err, a.loader, 1)

\* impl ArgType for T: Decode.
Decode_load(kind, ldr) ==
    IF kind = "unit"
    THEN Loaded(TRUE, <<"unit">>, "", ldr, 0)
    ELSE LET a == next_arg(ldr, kind)
         IN  CASE a.tag = "Some" -> Loaded(TRUE, a.val, "", a.loader, 1)
               [] a.tag = "None" -> Loaded(FALSE, << >>, ARG_WRONG_NUMBER, a.loader, 1)
               [] a.tag = "Err"  -> Loaded(FALSE, << >>, a.err, a.loader, 1)

RECURSIVE Load(_, _)

RECURSIVE MultiArg_load_from(_, _, _, _, _)

\* Ok(OptionalArg::Some(T::load(loader, arg_id)?)): the error of the load
\* returned as it is, the loaded value wrapped.
OptionalArg_Some(r) ==
    IF r.ok THEN Loaded(TRUE, <<"Some", r.val>>, "", r.loader, r.calls) ELSE r

\* An OptionalArg load that does not ask has_next first.
OptionalArg_load_unchecked(t, ldr) == OptionalArg_Some(Load(t, ldr))

\* impl ArgType for OptionalArg<T>.
OptionalArg_load(t, ldr) ==
    IF has_next(ldr) THEN OptionalArg_Some(Load(t, ldr))
    ELSE Loaded(TRUE, <<"None">>, "", ldr, 0)

\* An AsyncCallResult load that reports a failed load of the error code as a
\* wrong number of arguments.
AsyncCallResult_load_masking(t, ldr) ==
    LET c == Decode_load("i32", ldr)
    IN  IF ~c.ok THEN Loaded(FALSE, << >>, ARG_WRONG_NUMBER, c.loader, c.calls)
        ELSE IF c.val[2] = 0
        THEN LET r == Load(t, c.loader)
             IN  IF r.ok
                 THEN Loaded(TRUE, <<"Ok", r.val>>, "", r.loader, c.calls + r.calls)
                 ELSE Loaded(FALSE, << >>, r.err, r.loader, c.calls + r.calls)
        ELSE LET m == Decode_load("bytes", c.loader)
             IN  IF m.ok
                 THEN Loaded(TRUE, <<"Err", c.val[2], m.val[2]>>, "", m.loader,
                             c.calls + m.calls)
                 ELSE Loaded(FALSE, << >>, m.err, m.loader, c.calls + m.calls)

\* An AsyncCallResult load that takes the code 0 for the failure.
AsyncCallResult_load_swapped(t, ldr) ==
    LET c == Decode_load("i32", ldr)
    IN  IF ~c.ok THEN c
        ELSE IF c.val[2] # 0
        THEN LET r == Load(t, c.loader)
             IN  IF r.ok
                 THEN Loaded(TRUE, <<"Ok", r.val>>, "", r.loader, c.calls + r.calls)
                 ELSE Loaded(FALSE, << >>, r.err, r.loader, c.calls + r.calls)
        ELSE LET m == Decode_load("bytes", c.loader)
             IN  IF m.ok
                 THEN Loaded(TRUE, <<"Err", c.val[2], m.val[2]>>, "", m.loader,
                             c.calls + m.calls)
                 ELSE Loaded(FALSE, << >>, m.err, m.loader, c.calls + m.calls)

\* impl ArgType for AsyncCallResult<T>.
AsyncCallResult_load(t, ldr) ==
    LET c == Decode_load("i32", ldr)
    IN  IF ~c.ok THEN c
        ELSE IF c.val[2] = 0
        THEN LET r == Load(t, c.loader)
             IN  IF r.ok
                 THEN Loaded(TRUE, <<"Ok", r.val>>, "", r.loader, c.calls + r.calls)
                 ELSE Loaded(FALSE, << >>, r.err, r.loader, c.calls + r.calls)
        ELSE LET m == Decode_load("bytes", c.loader)
             IN  IF m.ok
                 THEN Loaded(TRUE, <<"Err", c.val[2], m.val[2]>>, "", m.loader,
                             c.calls + m.calls)
                 ELSE Loaded(FALSE, << >>, m.err, m.loader, c.calls + m.calls)

\* impl ArgType for MultiArgN: the members from the i-th on, in declared order,
\* the first error returned at once.
MultiArg_load_from(ts, i, ldr, acc, n) ==
    IF i > Len(ts) THEN Loaded(TRUE, <<"MultiArg", acc>>, "", ldr, n)
    ELSE LET r == Load(ts[i], ldr)
         IN  IF r.ok
             THEN MultiArg_load_from(ts, i + 1, r.loader, Append(acc, r.val), n + r.calls)
             ELSE Loaded(FALSE, << >>, r.err, r.loader, n + r.calls)

MultiArg_load(ts, ldr) == MultiArg_load_from(ts, 1, ldr, << >>, 0)

\* T::load for every type but VarArgs, whose loop the program steps through.
Load(t, ldr) ==
    CASE t.kind \in {"i32", "bytes", "unit"} -> Decode_load(t.kind, ldr)
      [] t.kind = "OptionalArg" -> OptionalArg_load(t.elems[1], ldr)
      [] t.kind = "AsyncCallResult" -> AsyncCallResult_load(t.elems[1], ldr)
      [] t.kind = "MultiArg" -> MultiArg_load(t.elems, ldr)

\* A push that inserts at the front.
VarArgs_push_front(vec, value) == <<value>> \o vec

\* VarArgs::push / Vec::push.
VarArgs_push(vec, value) == Append(vec, value)

(***************************************************************************)
(* The endpoint: a call comes with raw arguments, the endpoint loads one   *)
(* argument of some type from them (load_dyn_arg) and then calls           *)
(* check_no_more_args.  An error handed to the error handler ends the      *)
(* call.                                                                   *)
(***************************************************************************)
\* Raw arguments: the i32 0, 1 and -1, and one too long for an i32.
RawArgs == { << >>, <<1>>, <<255>>, <<1, 2, 3, 4, 5>> }

SingleArgKinds == {"i32", "bytes"}

\* The sequences of length n over S.
SeqsOf(S, n) == [1..n -> S]

SeqsUpTo(S, n) == UNION { SeqsOf(S, k) : k \in 0..n }

Min(a, b) == IF a < b THEN a ELSE b

\* The fixed-arity tuples of single-argument members.
MultiArgTypes ==
    { MultiArg(ts) : ts \in UNION { SeqsOf({T(k) : k \in SingleArgKinds}, n) :
                                        n \in MultiArgMin..Min(MaxArity, MultiArgMax) } }

\* The element types a wrapper is loaded with.
ElemTypes ==
    { T("i32"), T("bytes"), T("unit"),
      MultiArg(<<T("i32"), T("i32")>>), OptionalArg(T("i32")) }

InitArgs ==
    /\ supplied \in SeqsUpTo(RawArgs, MaxArgs)
    /\ loader = supplied
    /\ pc = "start"
    /\ ty = T("unit")
    /\ result_vec = << >>
    /\ ret = [ok |-> TRUE, val |-> << >>, err |-> ""]
    /\ calls = 0

\* load_dyn_arg of a type whose load returns in one step: the value, or the
\* error handed to the error handler.
Return(t, r) ==
    /\ ty' = t
    /\ loader' = r.loader
    /\ calls' = calls + r.calls
    /\ ret' = [ok |-> r.ok, val |-> r.val, err |-> r.err]
    /\ pc' = IF r.ok THEN "loaded" ELSE "failed"
    /\ UNCHANGED <<supplied, result_vec, bigvars, pushvars, codecvars>>

\* An argument of a type that implements Decode.
LoadDecode(kind) ==
    /\ pc = "start"
    /\ Return(T(kind), Decode_load(kind, loader))

LoadOptionalArg(t) ==
    /\ pc = "start"
    /\ Return(OptionalArg(t), OptionalArg_load(t, loader))

LoadMultiArg(t) ==
    /\ pc = "start"
    /\ Return(t, MultiArg_load(t.elems, loader))

LoadAsyncCallResult(t) ==
    /\ pc = "start"
    /\ Return(AsyncCallResult(t), AsyncCallResult_load(t, loader))

\* VarArgs::load, entered: let mut result_vec = Vec::new().
VarArgsBegin(t) ==
    /\ pc = "start"
    /\ ty' = VarArgs(t)
    /\ result_vec' = << >>
    /\ pc' = "varargs"
    /\ UNCHANGED <<loader, supplied, ret, calls, bigvars, pushvars, codecvars>>

\* One turn of the loop: has_next holds, T::load(loader, arg_id)? is pushed.
VarArgsIter ==
    /\ pc = "varargs"
    /\ has_next(loader)
    /\ Len(result_vec) < MaxVec + Len(supplied)
    /\ LET r == Load(ty.elems[1], loader)
       IN  /\ loader' = r.loader
           /\ calls' = calls + r.calls
           /\ IF r.ok
              THEN /\ result_vec' = VarArgs_push(result_vec, r.val)
                   /\ UNCHANGED <<pc, ret>>
              ELSE /\ ret' = [ok |-> FALSE, val |-> << >>, err |-> r.err]
                   /\ pc' = "failed"
                   /\ UNCHANGED result_vec
    /\ UNCHANGED <<supplied, ty, bigvars, pushvars, codecvars>>

\* The loop is left: has_next fails, Ok(VarArgs(result_vec)) is returned.
VarArgsReturn ==
    /\ pc = "varargs"
    /\ ~has_next(loader)
    /\ ret' = [ok |-> TRUE, val |-> <<"VarArgs", result_vec>>, err |-> ""]
    /\ pc' = "loaded"
    /\ UNCHANGED <<loader, supplied, ty, result_vec, calls, bigvars, pushvars, codecvars>>

\* A check_no_more_args that never reports.
check_no_more_args_silent(ldr) == [ok |-> TRUE, val |-> << >>, err |-> ""]

\* check_no_more_args, after the argument was loaded.
check_no_more_args(ldr) ==
    IF has_next(ldr) THEN [ok |-> FALSE, val |-> << >>, err |-> ARG_WRONG_NUMBER]
    ELSE [ok |-> TRUE, val |-> << >>, err |-> ""]

CheckNoMoreArgs ==
    /\ pc = "loaded"
    /\ LET c == check_no_more_args(loader)
       IN  IF c.ok
           THEN /\ pc' = "checked"
                /\ UNCHANGED ret
           ELSE /\ pc' = "failed_check"
                /\ ret' = c
    /\ UNCHANGED <<loader, supplied, ty, result_vec, calls, bigvars, pushvars, codecvars>>

NextArgs ==
    \/ \E kind \in {"i32", "bytes", "unit"} : LoadDecode(kind)
    \/ \E t \in ElemTypes : LoadOptionalArg(t)
    \/ \E t \in MultiArgTypes : LoadMultiArg(t)
    \/ \E t \in ElemTypes : LoadAsyncCallResult(t)
    \/ \E t \in ElemTypes : VarArgsBegin(t)
    \/ VarArgsIter
    \/ VarArgsReturn
    \/ CheckNoMoreArgs

\* A run about the loader: the integers and the serializer stay idle.
StartArgs == InitArgs /\ IdleBigInt /\ IdlePush /\ IdleCodec

SpecArgs == StartArgs /\ [][NextArgs]_vars

(***************************************************************************)
(* Properties of the argument loader.                                      *)
(***************************************************************************)
\* The load has returned (and check_no_more_args has not run yet).
Returned == pc \in {"loaded", "failed"}

\* The raw argument decodes as the single-argument type of that kind.
Decodes(kind, raw) == top_decode(kind, raw).ok

Decoded(kind, raw) == top_decode(kind, raw).val

\* C7: loading a VarArgs<T>, T a single-argument type, from a loader with k
\* remaining raw arguments (k >= 0) that all decode as T returns the list of
\* the k decoded arguments in the loader's order and leaves has_next false;
\* with k = 0 the list is empty, and no error.
C7_VarArgsLoad ==
    LET k == ty.elems[1].kind
    IN  (/\ ty.kind = "VarArgs" /\ k \in SingleArgKinds
         /\ Returned
         /\ \A i \in 1..Len(supplied) : Decodes(k, supplied[i])) =>
            /\ pc = "loaded" /\ ret.ok
            /\ ret.val[1] = "VarArgs"
            /\ Len(ret.val[2]) = Len(supplied)
            /\ \A i \in 1..Len(supplied) : ret.val[2][i] = Decoded(k, supplied[i])
            /\ ~has_next(loader)

\* Three arguments were loaded into a list, in their order.
C7_Witness ==
    /\ ty = VarArgs(T("i32")) /\ pc = "loaded"
    /\ supplied = << <<1>>, <<255>>, << >> >>
    /\ ret.val = <<"VarArgs", << <<"i32", 1>>, <<"i32", -1>>, <<"i32", 0>> >> >>

\* C8: loading an OptionalArg<T> from a loader with no remaining raw argument
\* returns OptionalArg::None and calls next_arg not once; from a loader with a
\* remaining argument (that decodes as the single-argument type T) it returns
\* OptionalArg::Some of the next argument decoded.
C8_OptionalArgLoad ==
    LET k == ty.elems[1].kind
    IN  (ty.kind = "OptionalArg" /\ Returned) =>
            /\ supplied = << >> =>
                    /\ pc = "loaded" /\ ret.ok /\ ret.val = <<"None">>
                    /\ calls = 0 /\ loader = supplied
            /\ (/\ supplied # << >> /\ k \in SingleArgKinds
                /\ Decodes(k, supplied[1])) =>
                    /\ pc = "loaded" /\ ret.ok
                    /\ ret.val = <<"Some", Decoded(k, supplied[1])>>
                    /\ calls = 1 /\ loader = Tail(supplied)

\* The first of two remaining arguments was loaded as Some.
C8_Witness ==
    /\ ty = OptionalArg(T("i32")) /\ pc = "loaded"
    /\ Len(supplied) = 2 /\ supplied[1] = <<255>>
    /\ ret.val = <<"Some", <<"i32", -1>>>>

\* C9: for a tuple MultiArgN of single-argument members (whose raw arguments
\* decode), loading the tuple and then calling check_no_more_args succeeds iff
\* exactly N raw arguments were supplied: with more than N the load succeeds,
\* taking the first N, and only check_no_more_args raises the wrong-argument-
\* count error; with fewer than N the load itself fails.
C9_MultiArgExact ==
    LET N == Len(ty.elems)
        k == Len(supplied)
    IN  (/\ ty.kind = "MultiArg"
         /\ \A i \in 1..Min(N, k) : Decodes(ty.elems[i].kind, supplied[i])) =>
            /\ pc = "loaded" =>
                    /\ k >= N /\ ret.ok
                    /\ ret.val = <<"MultiArg",
                                   [i \in 1..N |-> Decoded(ty.elems[i].kind, supplied[i])]>>
                    /\ loader = SubSeq(supplied, N + 1, k)
            /\ pc = "failed" => k < N /\ ret.err = ARG_WRONG_NUMBER
            /\ pc = "checked" => k = N
            /\ pc = "failed_check" => k > N /\ ret.err = ARG_WRONG_NUMBER

\* One argument more than the tuple's arity: the check, not the load, failed.
C9_Witness ==
    /\ ty.kind = "MultiArg" /\ Len(supplied) = Len(ty.elems) + 1
    /\ \A i \in 1..Len(ty.elems) : Decodes(ty.elems[i].kind, supplied[i])
    /\ pc = "failed_check" /\ ret.err = ARG_WRONG_NUMBER

\* C11: loading an AsyncCallResult<T> first loads an i32 error code; with the
\* code 0 it loads one T and returns Ok of that payload; with any other code
\* it loads one byte sequence and returns Err with exactly that code and
\* those bytes, and loads no T (two next_arg calls, two arguments consumed).
C11_AsyncCallResultLoad ==
    LET t == ty.elems[1]
        code == Decoded("i32", supplied[1])[2]
        rest == Tail(supplied)
        r == Load(t, rest)
    IN  (/\ ty.kind = "AsyncCallResult" /\ Returned
         /\ supplied # << >> /\ Decodes("i32", supplied[1])) =>
            /\ code = 0 =>
                    /\ ret.ok = r.ok
                    /\ loader = r.loader /\ calls = 1 + r.calls
                    /\ r.ok => ret.val = <<"Ok", r.val>>
                    /\ ~r.ok => ret.err = r.err
                    /\ (/\ t.kind \in SingleArgKinds /\ rest # << >>
                        /\ Decodes(t.kind, rest[1])) =>
                            ret.val = <<"Ok", Decoded(t.kind, rest[1])>>
            /\ (code # 0 /\ rest # << >>) =>
                    /\ pc = "loaded" /\ ret.ok
                    /\ ret.val = <<"Err", code, rest[1]>>
                    /\ calls = 2 /\ loader = Tail(rest)
            /\ (code # 0 /\ rest = << >>) =>
                    /\ pc = "failed" /\ ret.err = ARG_WRONG_NUMBER

\* The code -1 and a message were loaded as Err; the third argument, which
\* a load of T would have taken, is still in the loader.
C11_Witness ==
    /\ ty = AsyncCallResult(T("i32")) /\ pc = "loaded"
    /\ supplied = << <<255>>, <<1, 2, 3, 4, 5>>, <<1>> >>
    /\ ret.val = <<"Err", -1, <<1, 2, 3, 4, 5>>>>
    /\ loader = << <<1>> >>

\* The loader's program with the scheduling of a sequential program: a step
\* that can be taken is taken.
SpecArgsLive == StartArgs /\ [][NextArgs]_vars /\ WF_vars(NextArgs)

\* C14: loading a VarArgs<T> terminates once the loader is exhausted: for
\* every element type T (single-argument types, the unit marker type, nested
\* wrapper types) and every finite sequence of raw arguments, the load loop
\* reaches a state where it returns.
C14_VarArgsTerminates == (pc = "varargs") ~> (pc \in {"loaded", "failed"})

\* C15: loading a VarArgs<T> never returns the wrong-number-of-arguments
\* error, for every element type T (fixed-arity tuple element types included)
\* and every number of remaining raw arguments, zero included.
C15_VarArgsNoCountError ==
    (ty.kind = "VarArgs" /\ pc = "failed") => ret.err # ARG_WRONG_NUMBER

\* C16: loading an OptionalArg<T> consumes at most one raw argument from the
\* loader, for every element type T and every loader state.
C16_OptionalArgAtMostOne ==
    (ty.kind = "OptionalArg" /\ Returned) => Len(supplied) - Len(loader) <= 1

\* C17: loading the unit marker type always returns Ok with the unit value
\* and never calls next_arg: the loader's remaining raw arguments are the
\* same before and after, also when the loader is already exhausted.
C17_UnitLoad ==
    /\ (ty = T("unit") /\ pc # "start") =>
            /\ pc # "failed"
            /\ calls = 0 /\ loader = supplied
            /\ pc \in {"loaded", "checked"} => ret.ok /\ ret.val = <<"unit">>
    /\ ty = VarArgs(T("unit")) =>
            /\ pc # "failed"
            /\ calls = 0 /\ loader = supplied
            /\ \A i \in 1..Len(result_vec) : result_vec[i] = <<"unit">>

\* The unit value was loaded from a loader that holds two raw arguments.
C17_Witness ==
    /\ ty = T("unit") /\ pc = "loaded"
    /\ Len(supplied) = 2 /\ loader = supplied
    /\ ret.ok /\ ret.val = <<"unit">> /\ calls = 0

\* C18: when next_arg returns an error while a wrapper (VarArgs, OptionalArg,
\* MultiArgN, AsyncCallResult) is loading, the wrapper's load returns that
\* same error unchanged and makes no next_arg call after the failing one; a
\* next_arg that returns Ok(None) for a non-unit type is reported as the
\* wrong-number-of-arguments error.  Every next_arg call but one that returns
\* Ok(None) takes one raw argument, so the failing call is the last one made
\* when the calls are as many as the arguments taken.
C18_ErrorPropagation ==
    LET taken == Len(supplied) - Len(loader)
    IN  (/\ ty.kind \in {"VarArgs", "OptionalArg", "MultiArg", "AsyncCallResult"}
         /\ pc = "failed") =>
            /\ ~ret.ok
            /\ loader = SubSeq(supplied, taken + 1, Len(supplied))
            /\ \/ /\ ret.err = ARG_WRONG_NUMBER
                  /\ loader = << >> /\ calls = taken + 1
               \/ /\ calls = taken /\ calls >= 1
                  /\ \E kind \in SingleArgKinds :
                        /\ ~Decodes(kind, supplied[calls])
                        /\ ret.err = top_decode(kind, supplied[calls]).err

\* The second member of a tuple of three failed to decode: its error came
\* out, and the third raw argument was not asked for.
C18_Witness ==
    /\ ty.kind = "MultiArg" /\ Len(ty.elems) = 3 /\ pc = "failed"
    /\ Len(supplied) = 3 /\ Len(loader) = 1 /\ calls = 2
    /\ ret.err = DECODE_INPUT_TOO_LONG

(***************************************************************************)
(* The asynchronous call argument serializer (arg_serialize.rs).  The      *)
(* CallDataSerializer is the sequence of the arguments pushed so far; an   *)
(* argument value is a tuple that starts with its variant: <<"i32", v>>,   *)
(* <<"bytes", s>>, <<"VarArgs", list>>, <<"Some", v>>, <<"None">>,         *)
(* <<"MultiResult", components>>.                                          *)
(***************************************************************************)
\* multi_result_impls!: MultiResult1 .. MultiResult16.
MultiResultMin == 1

MultiResultMax == 16

ARG_ASYNC_WRONG_NUMBER == "wrong number of async arguments"

NOT_SUPPORTED == "not supported"

\* What a push returns, with the serializer it leaves.
Pushed(ok, err, ser) == [ok |-> ok, err |-> err, ser |-> ser]

\* Top-level encoding of the scalars: the minimal signed bytes of an i32
\* (none for zero), a byte sequence as itself.
top_encode(value) ==
    CASE value[1] = "i32" -> SignedBytes(value[2])
      [] value[1] = "bytes" -> value[2]
      [] OTHER -> << >>

\* CallDataSerializer::push_argument_bytes.
push_argument_bytes(ser, bytes) == Append(ser, bytes)

\* impl AsynCallArg for T: Encode.  Encoding the modelled scalars never fails.
Encode_push_async_arg(value, ser) ==
    Pushed(TRUE, "", push_argument_bytes(ser, top_encode(value)))

RECURSIVE push_async_arg(_, _)

RECURSIVE VarArgs_push_from(_, _, _)

RECURSIVE MultiResult_push_from(_, _, _)

\* for elem in self.0.iter() { elem.push_async_arg(serializer)?; }
VarArgs_push_from(list, i, ser) ==
    IF i > Len(list) THEN Pushed(TRUE, "", ser)
    ELSE LET r == push_async_arg(list[i], ser)
         IN  IF r.ok THEN VarArgs_push_from(list, i + 1, r.ser) ELSE r

\* A VarArgs push that goes through the list from its end.
VarArgs_push_async_arg_reversed(value, ser) ==
    VarArgs_push_from([i \in 1..Len(value[2]) |-> value[2][Len(value[2]) + 1 - i]], 1, ser)

\* impl AsynCallArg for VarArgs<T>: push_async_arg.
VarArgs_push_async_arg(value, ser) == VarArgs_push_from(value[2], 1, ser)

\* impl AsynCallArg for OptionalArg<T>.
OptionalArg_push_async_arg(value, ser) ==
    IF value[1] = "Some"
    THEN LET r == push_async_arg(value[2], ser)
         IN  IF r.ok THEN Pushed(TRUE, "", r.ser) ELSE r
    ELSE Pushed(TRUE, "", ser)

\* $( (self.0).$n.push_async_arg(serializer)?; )+
MultiResult_push_from(components, n, ser) ==
    IF n > Len(components) THEN Pushed(TRUE, "", ser)
    ELSE LET r == push_async_arg(components[n], ser)
         IN  IF r.ok THEN MultiResult_push_from(components, n + 1, r.ser) ELSE r

\* multi_result_impls!: push_async_arg of MultiResultN.
MultiResult_push_async_arg(value, ser) == MultiResult_push_from(value[2], 1, ser)

\* AsynCallArg::push_async_arg, by the type of the value.
push_async_arg(value, ser) ==
    CASE value[1] = "VarArgs" -> VarArgs_push_async_arg(value, ser)
      [] value[1] \in {"Some", "None"} -> OptionalArg_push_async_arg(value, ser)
      [] value[1] = "MultiResult" -> MultiResult_push_async_arg(value, ser)
      [] OTHER -> Encode_push_async_arg(value, ser)

\* A default push_async_arg_exact that pushes the value as push_async_arg does.
AsynCallArg_push_async_arg_exact_pushing(value, ser, expected_len) ==
    push_async_arg(value, ser)

\* The trait's default push_async_arg_exact.
AsynCallArg_push_async_arg_exact(value, ser, expected_len) ==
    Pushed(FALSE, NOT_SUPPORTED, ser)

\* An exact push that does not compare the lengths.
VarArgs_push_async_arg_exact_unchecked(value, ser, expected_len) ==
    LET r == VarArgs_push_async_arg(value, ser)
    IN  IF r.ok THEN Pushed(TRUE, "", r.ser) ELSE r

\* impl AsynCallArg for VarArgs<T>: push_async_arg_exact.
VarArgs_push_async_arg_exact(value, ser, expected_len) ==
    IF Len(value[2]) # expected_len
    THEN Pushed(FALSE, ARG_ASYNC_WRONG_NUMBER, ser)
    ELSE LET r == VarArgs_push_async_arg(value, ser)
         IN  IF r.ok THEN Pushed(TRUE, "", r.ser) ELSE r

\* AsynCallArg::push_async_arg_exact, by the type of the value.
push_async_arg_exact(value, ser, expected_len) ==
    IF value[1] = "VarArgs"
    THEN VarArgs_push_async_arg_exact(value, ser, expected_len)
    ELSE AsynCallArg_push_async_arg_exact(value, ser, expected_len)

\* The scalars pushed: the i32 -129 and 7, and a byte sequence.
PushScalars == { <<"i32", -129>>, <<"i32", 7>>, <<"bytes", <<7>>>> }

\* The lists pushed, each of one element type: i32, bytes, OptionalArg<i32>
\* and MultiResult2<i32, bytes>.
PushLists ==
    UNION { SeqsUpTo(S, MaxList) :
            S \in { { <<"i32", -129>>, <<"i32", 7>> },
                    { <<"bytes", <<7>>>> },
                    { <<"None">>, <<"Some", <<"i32", -129>>>> },
                    { <<"MultiResult", << <<"i32", -129>>, <<"bytes", <<7>>>> >> >> } } }

PushValues ==
    PushScalars
    \cup { <<"VarArgs", list>> : list \in PushLists }
    \cup { <<"None">> } \cup { <<"Some", v>> : v \in PushScalars }
    \cup { <<"MultiResult", c>> :
           c \in UNION { SeqsOf({ <<"i32", -129>>, <<"bytes", <<7>>>> }, n) :
                         n \in MultiResultMin..Min(MaxList, MultiResultMax) } }

\* A fresh CallDataSerializer.
InitPush == IdlePush

\* value.push_async_arg(&mut serializer)
PushAsyncArg(value) ==
    LET r == push_async_arg(value, callData)
    IN  /\ Len(r.ser) <= MaxBuf
        /\ callData' = r.ser
        /\ pushed' = [op |-> "push_async_arg", arg |-> value, expected |-> 0,
                      res |-> [ok |-> r.ok, err |-> r.err], before |-> callData]
        /\ UNCHANGED <<bigvars, argvars, codecvars>>

\* value.push_async_arg_exact(&mut serializer, expected_len)
PushAsyncArgExact(value, expected_len) ==
    LET r == push_async_arg_exact(value, callData, expected_len)
    IN  /\ Len(r.ser) <= MaxBuf
        /\ callData' = r.ser
        /\ pushed' = [op |-> "push_async_arg_exact", arg |-> value,
                      expected |-> expected_len,
                      res |-> [ok |-> r.ok, err |-> r.err], before |-> callData]
        /\ UNCHANGED <<bigvars, argvars, codecvars>>

NextPush ==
    \/ \E value \in PushValues : PushAsyncArg(value)
    \/ \E value \in PushValues, expected_len \in 0..(MaxList + 1) :
            PushAsyncArgExact(value, expected_len)

\* A run about the serializer: the integers and the loader stay idle.
StartPush == InitPush /\ IdleBigInt /\ IdleArgs /\ IdleCodec

SpecPush == StartPush /\ [][NextPush]_vars

(***************************************************************************)
(* Properties of the serializer.                                           *)
(***************************************************************************)
\* C10: push_async_arg_exact on a VarArgs of length L with expected count E
\* returns Ok iff L = E, and then has appended exactly the L encoded elements
\* (of an encodable scalar type) to the call-data buffer; when L # E it
\* returns "wrong number of async arguments" and the buffer is unchanged.
C10_PushExact ==
    LET list == pushed.arg[2]
        L == Len(list)
        E == pushed.expected
    IN  (pushed.op = "push_async_arg_exact" /\ pushed.arg[1] = "VarArgs") =>
            /\ pushed.res.ok <=> L = E
            /\ (L = E /\ \A i \in 1..L : list[i] \in PushScalars) =>
                    /\ Len(callData) = Len(pushed.before) + L
                    /\ SubSeq(callData, 1, Len(pushed.before)) = pushed.before
                    /\ \A i \in 1..L :
                          callData[Len(pushed.before) + i] = top_encode(list[i])
            /\ L # E =>
                    /\ pushed.res.err = ARG_ASYNC_WRONG_NUMBER
                    /\ callData = pushed.before

\* Two elements were pushed, with the expected count 2, after an earlier one.
C10_Witness ==
    /\ pushed.op = "push_async_arg_exact" /\ pushed.expected = 2
    /\ pushed.arg = <<"VarArgs", << <<"i32", -129>>, <<"i32", 7>> >> >>
    /\ pushed.res.ok
    /\ pushed.before = << <<7>> >>
    /\ callData = << <<7>>, <<255, 127>>, <<7>> >>

RECURSIVE ScalarsOf(_)

RECURSIVE ScalarsOfAll(_, _)

\* The scalars of the values from the i-th on, in their order.
ScalarsOfAll(values, i) ==
    IF i > Len(values) THEN << >>
    ELSE ScalarsOf(values[i]) \o ScalarsOfAll(values, i + 1)

\* The scalars an argument value is made of, in declared order: the elements
\* of a list, the value inside Some, nothing for None, the components of a
\* result tuple.
ScalarsOf(value) ==
    CASE value[1] \in {"VarArgs", "MultiResult"} -> ScalarsOfAll(value[2], 1)
      [] value[1] = "Some" -> ScalarsOf(value[2])
      [] value[1] = "None" -> << >>
      [] OTHER -> <<value>>

\* A step of push_async_arg appends the encoded scalars of its argument, in
\* declared order, and every step keeps what the buffer held as a prefix.
C13_Step ==
    /\ Len(callData') >= Len(callData)
    /\ SubSeq(callData', 1, Len(callData)) = callData
    /\ pushed'.op = "push_async_arg" =>
            LET scalars == ScalarsOf(pushed'.arg)
            IN  /\ pushed'.res.ok
                /\ callData' = callData \o [i \in 1..Len(scalars) |-> top_encode(scalars[i])]

\* C13: push_async_arg appends to the call-data buffer, after whatever was in
\* it, one top-level-encoded argument per scalar in declared order (a VarArgs
\* its elements in list order, Some its value, None nothing, a MultiResultN
\* its components 0..N-1); no push ever reorders or removes an argument that
\* is already in the buffer.
C13_PushOrder == [][C13_Step]_vars

\* A list of two different elements was pushed after an earlier argument.
C13_Witness ==
    /\ pushed.op = "push_async_arg"
    /\ pushed.arg = <<"VarArgs", << <<"i32", 7>>, <<"i32", -129>> >> >>
    /\ pushed.before = << <<255, 127>> >>
    /\ callData = << <<255, 127>>, <<7>>, <<255, 127>> >>

\* C21: push_async_arg_exact called on an argument of any type other than
\* VarArgs (an encodable scalar, an OptionalArg, a MultiResultN) returns the
\* "not supported" error, whatever the expected length, and leaves the
\* call-data buffer as it was.
C21_ExactNotSupported ==
    (pushed.op = "push_async_arg_exact" /\ pushed.arg[1] # "VarArgs") =>
        /\ ~pushed.res.ok
        /\ pushed.res.err = NOT_SUPPORTED
        /\ callData = pushed.before

\* A result tuple of two components was pushed with the expected length 2,
\* after an earlier argument: the buffer still holds that argument only.
C21_Witness ==
    /\ pushed.op = "push_async_arg_exact" /\ pushed.expected = 2
    /\ pushed.arg = <<"MultiResult", << <<"i32", -129>>, <<"bytes", <<7>>>> >> >>
    /\ pushed.res = [ok |-> FALSE, err |-> NOT_SUPPORTED]
    /\ pushed.before = << <<255, 127>> >>
    /\ callData = << <<255, 127>> >>

(***************************************************************************)
(* Nested encoding of the integers: Encode::dep_encode_to and              *)
(* Decode::dep_decode of RustBigInt and AndesBigInt.  A run encodes up to  *)
(* MaxNested integers one after the other into an Output, in each backend, *)
(* and then decodes them back from the bytes written, or from those bytes  *)
(* with the last few missing.                                              *)
(***************************************************************************)
DECODE_INPUT_TOO_SHORT == "input too short"

\* The bytes of the size field: a u32, big-endian.
SizeBytes == 4

\* usize::dep_encode_to.
usize_dep_encode_to(dst, n) ==
    dst \o [i \in 1..SizeBytes |-> (n \div Pow256(SizeBytes - i)) % 256]

\* <&[u8]>::dep_encode_to: the length, then the bytes.
slice_dep_encode_to(dst, bytes) == usize_dep_encode_to(dst, Len(bytes)) \o bytes

\* Input::read_slice: the next size bytes, or an error when fewer remain.
read_slice(inp, size) ==
    IF Len(inp) < size
    THEN [ok |-> FALSE, val |-> << >>, input |-> inp]
    ELSE [ok |-> TRUE, val |-> SubSeq(inp, 1, size),
          input |-> SubSeq(inp, size + 1, Len(inp))]

\* usize::dep_decode.
usize_dep_decode(inp) ==
    LET b == read_slice(inp, SizeBytes)
    IN  [ok |-> b.ok, val |-> BigUint_from_bytes_be(b.val), input |-> b.input]

\* Encode::dep_encode_to for RustBigInt.
RustBigInt_dep_encode_to(v, dst) ==
    LET bytes == RustBigInt_to_signed_bytes_be(v)
    IN  slice_dep_encode_to(dst, bytes)

\* Decode::dep_decode for RustBigInt.
RustBigInt_dep_decode(inp) ==
    LET size == usize_dep_decode(inp)
    IN  IF ~size.ok
        THEN [ok |-> FALSE, err |-> DECODE_INPUT_TOO_SHORT, val |-> 0,
              input |-> size.input]
        ELSE LET bytes == read_slice(size.input, size.val)
             IN  IF ~bytes.ok
                 THEN [ok |-> FALSE, err |-> DECODE_INPUT_TOO_SHORT, val |-> 0,
                       input |-> bytes.input]
                 ELSE [ok |-> TRUE, err |-> "",
                       val |-> RustBigInt_from_signed_bytes_be(bytes.val),
                       input |-> bytes.input]

\* Encode::dep_encode_to for AndesBigInt.
AndesBigInt_dep_encode_to(hp, self, dst) ==
    LET bytes == AndesBigInt_to_signed_bytes_be(hp, self)
    IN  slice_dep_encode_to(dst, bytes)

\* A dep_decode that reads the bytes of the value without moving the Input
\* past them.
AndesBigInt_dep_decode_peek(hp, inp) ==
    LET size == usize_dep_decode(inp)
    IN  IF ~size.ok
        THEN [ok |-> FALSE, err |-> DECODE_INPUT_TOO_SHORT, heap |-> hp,
              handle |-> 0, input |-> size.input]
        ELSE LET bytes == read_slice(size.input, size.val)
             IN  IF ~bytes.ok
                 THEN [ok |-> FALSE, err |-> DECODE_INPUT_TOO_SHORT, heap |-> hp,
                       handle |-> 0, input |-> bytes.input]
                 ELSE LET r == AndesBigInt_from_signed_bytes_be(hp, bytes.val)
                      IN  [ok |-> TRUE, err |-> "", heap |-> r.heap,
                           handle |-> r.handle, input |-> size.input]

\* Decode::dep_decode for AndesBigInt.
AndesBigInt_dep_decode(hp, inp) ==
    LET size == usize_dep_decode(inp)
    IN  IF ~size.ok
        THEN [ok |-> FALSE, err |-> DECODE_INPUT_TOO_SHORT, heap |-> hp,
              handle |-> 0, input |-> size.input]
        ELSE LET bytes == read_slice(size.input, size.val)
             IN  IF ~bytes.ok
                 THEN [ok |-> FALSE, err |-> DECODE_INPUT_TOO_SHORT, heap |-> hp,
                       handle |-> 0, input |-> bytes.input]
                 ELSE LET r == AndesBigInt_from_signed_bytes_be(hp, bytes.val)
                      IN  [ok |-> TRUE, err |-> "", heap |-> r.heap,
                           handle |-> r.handle, input |-> bytes.input]

\* The integers a run encodes.
NestedItems == {-129, -1, 0, 1, 128}

InitNested ==
    /\ phase = "encoding" /\ items = << >>
    /\ output = [c |-> << >>, d |-> << >>]
    /\ input = [c |-> << >>, d |-> << >>, cut |-> 0]
    /\ decoded = [c |-> << >>, d |-> << >>, cerr |-> "", derr |-> ""]

\* BigInt::from(item).dep_encode_to(&mut dest), in each backend.
DepEncode(item) ==
    /\ phase = "encoding"
    /\ Len(items) < MaxNested
    /\ LET a == AndesBigInt_from(heap, item)
       IN  /\ heap' = a.heap
           /\ output' = [c |-> RustBigInt_dep_encode_to(RustBigInt_from(item), output.c),
                         d |-> AndesBigInt_dep_encode_to(a.heap, a.handle, output.d)]
    /\ items' = Append(items, item)
    /\ UNCHANGED <<phase, input, decoded>>
    /\ UNCHANGED <<dh, cv, wire, obs, clones, nops, argvars, pushvars>>

\* The bytes written become the Input of the decoder, the last cut missing.
Deliver(cut) ==
    /\ phase = "encoding"
    /\ items # << >>
    /\ cut <= Len(output.d)
    /\ input' = [c |-> SubSeq(output.c, 1, Len(output.c) - cut),
                 d |-> SubSeq(output.d, 1, Len(output.d) - cut),
                 cut |-> cut]
    /\ phase' = "decoding"
    /\ UNCHANGED <<items, output, decoded, bigvars, argvars, pushvars>>

\* BigInt::dep_decode(&mut input), in each backend.
DepDecode ==
    /\ phase = "decoding"
    /\ LET c == RustBigInt_dep_decode(input.c)
           d == AndesBigInt_dep_decode(heap, input.d)
       IN  /\ heap' = d.heap
           /\ input' = [input EXCEPT !.c = c.input, !.d = d.input]
           /\ decoded' = [c |-> IF c.ok THEN Append(decoded.c, c.val) ELSE decoded.c,
                          d |-> IF d.ok THEN Append(decoded.d, d.handle) ELSE decoded.d,
                          cerr |-> c.err, derr |-> d.err]
           /\ phase' = IF c.ok /\ d.ok /\ Len(decoded.c) + 1 < Len(items)
                       THEN "decoding" ELSE "done"
    /\ UNCHANGED <<items, output>>
    /\ UNCHANGED <<dh, cv, wire, obs, clones, nops, argvars, pushvars>>

NextNested ==
    \/ \E item \in NestedItems : DepEncode(item)
    \/ \E cut \in 0..MaxCut : Deliver(cut)
    \/ DepDecode

\* A run about the nested encoding: the rest stays idle.
StartNested == InitNested /\ IdleBigInt /\ IdleArgs /\ IdlePush

SpecNested == StartNested /\ [][NextNested]_vars

(***************************************************************************)
(* Properties of the nested encoding.                                      *)
(***************************************************************************)
RECURSIVE NestedLength(_, _)

\* The bytes the nested encodings of the first n of the byte strings take.
NestedLength(byteStrings, n) ==
    IF n = 0 THEN 0
    ELSE NestedLength(byteStrings, n - 1) + SizeBytes + Len(byteStrings[n])

\* C12: the nested encoding of an integer x followed by that of a second
\* value y, decoded by successive nested decodes from the whole buffer, yields
\* x then y, in each backend: each dep_decode consumes exactly the length
\* prefix and as many bytes as it says, returns a value equal to the one
\* encoded, and leaves the bytes after it in the input as they were written.
C12_NestedRoundTrip ==
    LET n == Len(decoded.c)
        cb == [i \in 1..Len(items) |-> RustBigInt_to_signed_bytes_be(items[i])]
        db == [i \in 1..Len(items) |-> AndesBigInt_to_signed_bytes_be(heap, i)]
    IN  (phase \in {"decoding", "done"} /\ input.cut = 0) =>
            /\ decoded.cerr = "" /\ decoded.derr = ""
            /\ Len(decoded.d) = n
            /\ phase = "done" => n = Len(items)
            /\ \A i \in 1..n :
                  /\ decoded.c[i] = items[i]
                  /\ heap[decoded.d[i]] = items[i]
            /\ input.c = SubSeq(output.c, NestedLength(cb, n) + 1, Len(output.c))
            /\ input.d = SubSeq(output.d, NestedLength(db, n) + 1, Len(output.d))

\* -129 was decoded first, and the bytes of 128 are still in the input.
C12_Witness ==
    /\ phase = "decoding" /\ input.cut = 0
    /\ items = <<-129, 128>>
    /\ decoded.c = <<-129>> /\ heap[decoded.d[1]] = -129
    /\ input.c = <<0, 0, 0, 2, 0, 128>>
    /\ input.d = <<0, 0, 0, 2, 0, 128>>

=============================================================================
